---- MODULE Spec2Model ----
(***************************************************************************)
(* pi-telemetry: the fleet aggregator (bin/pi-telemetry-snapshot, kept     *)
(* here as src/unnamed/part_000) and the extension                         *)
(* (src/extensions/pi-telemetry.ts): its terminal routing resolver, its    *)
(* layout parser, its lifecycle handlers, heartbeat and telemetry file.    *)
(*                                                                         *)
(* JSON values the aggregator coerces are kept as tagged values [t, v] so  *)
(* that Number(), truthiness and strict equality behave as in JavaScript.  *)
(***************************************************************************)
EXTENDS Integers, Sequences, FiniteSets, TLC

VARIABLES dirExists, dir, now, staleMs, alive, pc, files, instances, active,
          counts, aggregate, context, sessions, instancesByPid,
          psLine, byPid, startPid, cur, seen, ancestry, mpc,
          env, clientSession, routing,
          layout, output, cwd, zr, tpc,
          heartbeat, timers, nextTimer, heartbeatSeq, lastSnapshot, handled,
          running, stopped, escaped,
          clock, due,
          fsys, wpc, rfiles, observed, rpc

envVars == <<dirExists, dir, now, staleMs, alive>>
aggVars == <<envVars, pc, files, instances, active, counts, aggregate, context,
             sessions, instancesByPid>>
muxVars == <<psLine, byPid, startPid, cur, seen, ancestry, mpc>>
routeVars == <<env, clientSession, routing>>
tabVars == <<layout, output, cwd, zr, tpc>>
aggRest == <<dirExists, dir, alive, pc, files, instances, active,
             counts, aggregate, context, sessions, instancesByPid>>
lifeVars == <<heartbeat, timers, nextTimer, heartbeatSeq, lastSnapshot, handled,
              running, stopped, escaped>>
timeVars == <<clock, due>>
fsVars == <<fsys, wpc, rfiles, observed, rpc>>
extVars == <<lifeVars, timeVars, fsVars>>
vars == <<aggVars, muxVars, routeVars, tabVars, extVars>>

(* ------------------------------------------------------------------ *)
(* JavaScript values                                                   *)
(* ------------------------------------------------------------------ *)

\* a JSON / argv value: a number, a string holding a decimal number, any
\* other non-empty string, null, the number 1e999 (parsed as Infinity), or
\* a key that is not there (undefined)
Raw(t, v) == [t |-> t, v |-> v]
Num(n) == Raw("num", n)
NumStr(n) == Raw("numstr", n)
BadStr == Raw("badstr", 0)
Null == Raw("null", 0)
Inf == Raw("inf", 0)
EmptyStr == Raw("emptystr", 0)
Undef == Raw("undefined", 0)

\* a JavaScript number: finite, NaN or Infinity
Fin(n) == [k |-> "fin", v |-> n]
NaN == [k |-> "nan", v |-> 0]
Infinity == [k |-> "inf", v |-> 0]

\* Number(x)
Number(x) ==
  CASE x.t = "num" -> Fin(x.v)
    [] x.t = "numstr" -> Fin(x.v)
    [] x.t = "null" -> Fin(0)
    [] x.t = "emptystr" -> Fin(0)
    [] x.t = "inf" -> Infinity
    [] OTHER -> NaN

isFinite(n) == n.k = "fin"

\* the truthiness of a value, as the && of normalizeInstance tests it
Truthy(x) ==
  CASE x.t = "num" -> x.v # 0
    [] x.t = "numstr" -> TRUE
    [] x.t = "badstr" -> TRUE
    [] x.t = "inf" -> TRUE
    [] OTHER -> FALSE

(* ------------------------------------------------------------------ *)
(* Fleet aggregator: helpers                                           *)
(* ------------------------------------------------------------------ *)

DefaultStaleMs == 10000

\* getStaleMs: --stale-ms wins over PI_TELEMETRY_STALE_MS, and anything that
\* is not a positive finite number falls back to the default (only whole
\* numbers are drawn, so Math.floor has nothing to cut)
getStaleMs(arg, envv) ==
  LET chosen == IF arg.t # "undefined" THEN arg
                ELSE IF envv.t # "undefined" THEN envv ELSE EmptyStr
      configured == Number(chosen)
  IN  IF isFinite(configured) /\ configured.v > 0 THEN configured.v
      ELSE DefaultStaleMs

\* isPidAlive: process.kill(pid, 0) succeeds exactly for the pids of the
\* process table
isPidAlive(pid) ==
  IF ~isFinite(pid) \/ pid.v <= 0 THEN FALSE ELSE pid.v \in alive

\* what a file holds: parse says whether it can be read and parsed and
\* whether the parsed value is an object; the other fields are the keys of
\* that object the aggregator looks at
NoCtx == [present |-> FALSE, pct |-> Undef, close |-> FALSE, near |-> FALSE,
          pressure |-> ""]

Ctx(pct, close, near, pressure) ==
  [present |-> TRUE, pct |-> pct, close |-> close, near |-> near,
   pressure |-> pressure]

Doc(parse, sv, pid, upd, act, sid, ctx) ==
  [parse |-> parse, sv |-> sv, pid |-> pid, upd |-> upd, act |-> act,
   sid |-> sid, ctx |-> ctx]

Rec(pid, upd, act, sid, ctx) == Doc("ok", Num(2), pid, upd, act, sid, ctx)

Blank(parse) == Doc(parse, Undef, Undef, Undef, "", "", NoCtx)

NoFile == Blank("nofile")
Undefined == Blank("undefined")

\* readJson: undefined when the file cannot be read or does not parse
readJson(content) ==
  IF content.parse \in {"unreadable", "garbage", "nofile"} THEN Undefined
  ELSE content

\* normalizeInstance, as a predicate: TRUE when it returns the data
normalizeInstance(data) ==
  /\ data.parse = "ok"
  /\ data.sv = Num(2)
  /\ Truthy(data.pid)

\* isStale with the threshold itself counted as stale
isStaleInclusive(updatedAt) ==
  ~isFinite(updatedAt) \/ now - updatedAt.v >= staleMs

\* the stale flag of the collecting loop
isStale(updatedAt) ==
  ~isFinite(updatedAt) \/ now - updatedAt.v > staleMs

\* one iteration of the collecting loop for a file that passed the check
annotate(file, data) ==
  LET pid == Number(data.pid)
      updatedAt == Number(data.upd)
  IN  [file |-> file, data |-> data,
       alive |-> isPidAlive(pid),
       stale |-> isStale(updatedAt),
       ageMs |-> IF isFinite(updatedAt) THEN Num(now - updatedAt.v) ELSE Null]

\* the collecting loop over the enumerated files
RECURSIVE collect(_)
collect(fs) ==
  IF fs = <<>> THEN <<>>
  ELSE LET data == readJson(dir[Head(fs)])
       IN  IF normalizeInstance(data)
           THEN <<annotate(Head(fs), data)>> \o collect(Tail(fs))
           ELSE collect(Tail(fs))

\* comparePid with the operands swapped
comparePidSwapped(a, b) ==
  LET x == Number(a.data.pid)
      y == Number(b.data.pid)
  IN  IF isFinite(x) /\ isFinite(y) THEN y.v - x.v ELSE 0

\* the comparator of the sort: a.process.pid - b.process.pid
comparePid(a, b) ==
  LET x == Number(a.data.pid)
      y == Number(b.data.pid)
  IN  IF isFinite(x) /\ isFinite(y) THEN x.v - y.v ELSE 0

\* Array.prototype.sort is stable: an element goes behind every element it
\* does not compare below
RECURSIVE insertSorted(_, _)
insertSorted(s, x) ==
  IF s = <<>> THEN <<x>>
  ELSE IF comparePid(x, Head(s)) < 0 THEN <<x>> \o s
       ELSE <<Head(s)>> \o insertSorted(Tail(s), x)

RECURSIVE sortByPid(_)
sortByPid(s) ==
  IF s = <<>> THEN <<>>
  ELSE insertSorted(sortByPid(SubSeq(s, 1, Len(s) - 1)), s[Len(s)])

\* qualifies without the liveness test
qualifiesIgnoringAlive(i) == ~i.stale

qualifies(i) == i.alive /\ ~i.stale

activeOf(insts) == sortByPid(SelectSeq(insts, qualifies))

countWhere(s, P(_)) == Len(SelectSeq(s, P))

\* countsOf with unknown taking every record that is not working
countsCatchAll(act) ==
  [total |-> Len(act),
   working |-> countWhere(act, LAMBDA i : i.data.act = "working"),
   waiting_input |-> countWhere(act, LAMBDA i : i.data.act = "waiting_input"),
   unknown |-> countWhere(act, LAMBDA i : i.data.act # "working")]

countsOf(act) ==
  [total |-> Len(act),
   working |-> countWhere(act, LAMBDA i : i.data.act = "working"),
   waiting_input |-> countWhere(act, LAMBDA i : i.data.act = "waiting_input"),
   unknown |-> countWhere(act, LAMBDA i : i.data.act = "unknown")]

\* aggregateOf with a verdict of its own for a fleet that is all unknown
aggregateWithUnknown(c) ==
  IF c.total = 0 THEN "none"
  ELSE IF c.working = c.total THEN "working"
  ELSE IF c.waiting_input = c.total THEN "waiting_input"
  ELSE IF c.unknown = c.total THEN "unknown"
  ELSE "mixed"

aggregateOf(c) ==
  IF c.total = 0 THEN "none"
  ELSE IF c.working = c.total THEN "working"
  ELSE IF c.waiting_input = c.total THEN "waiting_input"
  ELSE "mixed"

isNumber(x) == x.t \in {"num", "inf"}

RECURSIVE maxPercentOf(_, _)
maxPercentOf(act, max) ==
  IF act = <<>> THEN max
  ELSE LET p == Head(act).data.ctx.pct
       IN  maxPercentOf(Tail(act),
             IF p.t = "num" /\ p.v > max THEN p.v ELSE max)

contextOf(act) ==
  [reporting |-> countWhere(act,
                   LAMBDA i : i.data.ctx.present /\ isNumber(i.data.ctx.pct)),
   closeToLimit |-> countWhere(act, LAMBDA i : i.data.ctx.close),
   nearLimit |-> countWhere(act, LAMBDA i : i.data.ctx.near),
   atLimit |-> countWhere(act, LAMBDA i : i.data.ctx.pressure = "at_limit"),
   maxPercent |-> maxPercentOf(act, 0)]

\* keys every object literal inherits from Object.prototype: sessions[key] is
\* truthy for them before anything was stored under the key
ObjectPrototypeKeys ==
  {"constructor", "__proto__", "toString", "valueOf", "hasOwnProperty"}

sessionKey(i) == IF i.data.sid # "" THEN i.data.sid ELSE "unknown"

newGroup(key) ==
  [sessionId |-> key, pids |-> <<>>,
   activities |-> [working |-> 0, waiting_input |-> 0, unknown |-> 0],
   context |-> [closeToLimit |-> 0, nearLimit |-> 0, atLimit |-> 0,
                maxPercent |-> 0]]

\* the body of the grouping loop for one instance, applied to its group
addToGroup(group, i) ==
  LET act == i.data.act
      c == i.data.ctx
      gc == group.context
  IN  [sessionId |-> group.sessionId,
       pids |-> Append(group.pids, i.data.pid),
       activities |->
         IF act \in {"working", "waiting_input", "unknown"}
         THEN [group.activities EXCEPT ![act] = @ + 1]
         ELSE group.activities,
       context |->
         [closeToLimit |-> gc.closeToLimit + (IF c.close THEN 1 ELSE 0),
          nearLimit |-> gc.nearLimit + (IF c.near THEN 1 ELSE 0),
          atLimit |-> gc.atLimit + (IF c.pressure = "at_limit" THEN 1 ELSE 0),
          maxPercent |-> IF c.pct.t = "num" /\ c.pct.v > gc.maxPercent
                         THEN c.pct.v ELSE gc.maxPercent]]

NoSessions == [k \in {} |-> newGroup("")]

\* the grouping loop; threw says that group.pids.push raised a TypeError
\* because sessions[key] was an inherited property and no group
RECURSIVE groupSessions(_, _)
groupSessions(act, groups) ==
  IF act = <<>> THEN [threw |-> FALSE, map |-> groups]
  ELSE LET i == Head(act)
           key == sessionKey(i)
       IN  IF key \notin DOMAIN groups /\ key \in ObjectPrototypeKeys
           THEN [threw |-> TRUE, map |-> groups]
           ELSE LET group == IF key \in DOMAIN groups THEN groups[key]
                             ELSE newGroup(key)
                IN  groupSessions(Tail(act),
                      (key :> addToGroup(group, i)) @@ groups)

NoLookup == [k \in {} |-> 0]

\* instancesByPid[String(pid)] = instance, a later instance replacing an
\* earlier one under the same key
RECURSIVE lookupByPid(_, _)
lookupByPid(act, lookup) ==
  IF act = <<>> THEN lookup
  ELSE lookupByPid(Tail(act),
         (Number(Head(act).data.pid).v :> Head(act)) @@ lookup)

NoCounts == [total |-> 0, working |-> 0, waiting_input |-> 0, unknown |-> 0]
NoContext == [reporting |-> 0, closeToLimit |-> 0, nearLimit |-> 0,
              atLimit |-> 0, maxPercent |-> 0]

(* ------------------------------------------------------------------ *)
(* Fleet aggregator: the telemetry directory and the pass              *)
(* ------------------------------------------------------------------ *)

\* a directory entry name, split where endsWith(".json") looks
Name(base, suffix) == [base |-> base, suffix |-> suffix]
F1 == Name("1", ".json")
F2 == Name("2", ".json")
F3 == Name("3", ".json")
FTmp == Name("1.json", ".tmp-1")
FileNames == {F1, F2, F3, FTmp}

endsWithJson(name) == name.suffix = ".json"

Now == 20000
ShortStaleMs == 3
AlivePids == {1, 2, 3}
DeadPid == 9
Activities == {"working", "waiting_input", "unknown"}

\* records as the extension writes them for pid p
Core(p) ==
  {Rec(Num(p), Num(Now), a, s, NoCtx) : a \in Activities, s \in {"s1", ""}}

\* files that are not records, or carry another schema version or pid
SchemaVariants ==
  {Blank("garbage"), Blank("unreadable"), Blank("scalar")}
  \cup {Doc("ok", sv, Num(1), Num(Now), "working", "s1", NoCtx) :
          sv \in {Num(1), NumStr(2), Undef}}
  \cup {Rec(pid, Num(Now), "working", "s1", NoCtx) :
          pid \in {Undef, Null, Num(0), Num(0 - 1), Num(DeadPid), NumStr(1),
                   NumStr(2), BadStr}}

\* records of every age around the threshold s
StaleVariants(p, s) ==
  {Rec(Num(p), upd, "working", "s1", NoCtx) :
     upd \in {Num(Now - s), Num(Now - s - 1), Num(Now + 1), NumStr(Now),
              Undef, Null, Inf, BadStr}}
  \cup {Rec(Num(1), Num(Now), "waiting_input", "s1", NoCtx)}

\* records with other session ids, activities and context summaries
SessionVariants(p) ==
  {Rec(Num(p), Num(Now), "working", sid, NoCtx) :
     sid \in {"s2", "unknown", "constructor"}}
  \cup {Rec(Num(p), Num(Now), act, "s1", NoCtx) : act \in {"idle", ""}}
  \cup {Rec(Num(p), Num(Now), "working", "s1", c) :
          c \in {Ctx(Num(50), FALSE, FALSE, "normal"),
                 Ctx(Num(100), TRUE, TRUE, "at_limit"),
                 Ctx(Undef, FALSE, FALSE, "normal")}}
  \cup {Rec(Num(1), Num(Now), "unknown", "", NoCtx)}

Dir(c1, c2, c3, ct) ==
  [n \in FileNames |->
     CASE n = F1 -> c1 [] n = F2 -> c2 [] n = F3 -> c3 [] OTHER -> ct]

\* the directories of a pass with threshold s: up to three .json files of
\* any content under the short threshold, a writer's temporary file beside
\* a published one, and records around the default threshold
Dirs(s) ==
  IF s = ShortStaleMs
  THEN {Dir(c1, c2, c3, NoFile) :
          c1 \in {NoFile} \cup Core(1) \cup SchemaVariants,
          c2 \in {NoFile} \cup Core(2) \cup StaleVariants(2, s),
          c3 \in {NoFile} \cup Core(3) \cup SessionVariants(3)}
       \cup {Dir(c1, NoFile, NoFile, ct) :
               c1 \in {NoFile} \cup Core(1), ct \in Core(1)}
  ELSE {Dir(c1, c2, NoFile, NoFile) :
          c1 \in {NoFile} \cup Core(1),
          c2 \in {NoFile} \cup StaleVariants(2, s)}

EmptyDir == [n \in FileNames |-> NoFile]

\* --stale-ms and PI_TELEMETRY_STALE_MS as given on the command line
StaleArgs == {Undef, NumStr(ShortStaleMs), NumStr(0), BadStr}

\* the orders in which readdirSync may list the entries of S
Orders(S) ==
  {o \in [1..Cardinality(S) -> S] : \A i, j \in DOMAIN o : i # j => o[i] # o[j]}

present == {n \in FileNames : dir[n] # NoFile}

AggInit ==
  /\ now = Now
  /\ alive = AlivePids
  /\ \E arg \in StaleArgs, envv \in StaleArgs : staleMs = getStaleMs(arg, envv)
  /\ dirExists \in BOOLEAN
  /\ IF dirExists THEN dir \in Dirs(staleMs) ELSE dir = EmptyDir
  /\ pc = "start"
  /\ files = <<>>
  /\ instances = <<>>
  /\ active = <<>>
  /\ counts = NoCounts
  /\ aggregate = ""
  /\ context = NoContext
  /\ sessions = NoSessions
  /\ instancesByPid = NoLookup

\* readdirSync + filter: the .json entries in the order the file system
\* lists them, or nothing when the directory is not there
ReadDir ==
  /\ pc = "start"
  /\ IF dirExists
     THEN \E o \in Orders({n \in present : endsWithJson(n)}) : files' = o
     ELSE files' = <<>>
  /\ pc' = "collect"
  /\ UNCHANGED <<envVars, instances, active, counts, aggregate, context,
                 sessions, instancesByPid>>
  /\ UNCHANGED <<muxVars, routeVars, tabVars, extVars>>

\* the collecting loop
Collect ==
  /\ pc = "collect"
  /\ instances' = collect(files)
  /\ pc' = "reduce"
  /\ UNCHANGED <<envVars, files, active, counts, aggregate, context,
                 sessions, instancesByPid>>
  /\ UNCHANGED <<muxVars, routeVars, tabVars, extVars>>

\* active, counts, aggregate and context
Reduce ==
  /\ pc = "reduce"
  /\ active' = activeOf(instances)
  /\ counts' = countsOf(active')
  /\ aggregate' = aggregateOf(counts')
  /\ context' = contextOf(active')
  /\ pc' = "group"
  /\ UNCHANGED <<envVars, files, instances, sessions, instancesByPid>>
  /\ UNCHANGED <<muxVars, routeVars, tabVars, extVars>>

\* the grouping loop runs to its end
Group ==
  /\ pc = "group"
  /\ ~groupSessions(active, NoSessions).threw
  /\ sessions' = groupSessions(active, NoSessions).map
  /\ pc' = "emit"
  /\ UNCHANGED <<envVars, files, instances, active, counts, aggregate,
                 context, instancesByPid>>
  /\ UNCHANGED <<muxVars, routeVars, tabVars, extVars>>

\* the grouping loop throws: the process ends with the uncaught TypeError
\* and nothing on stdout
GroupThrows ==
  /\ pc = "group"
  /\ groupSessions(active, NoSessions).threw
  /\ pc' = "crashed"
  /\ UNCHANGED <<envVars, files, instances, active, counts, aggregate,
                 context, sessions, instancesByPid>>
  /\ UNCHANGED <<muxVars, routeVars, tabVars, extVars>>

\* instancesByPid, and the document written to stdout
Emit ==
  /\ pc = "emit"
  /\ instancesByPid' = lookupByPid(active, NoLookup)
  /\ pc' = "done"
  /\ UNCHANGED <<envVars, files, instances, active, counts, aggregate,
                 context, sessions>>
  /\ UNCHANGED <<muxVars, routeVars, tabVars, extVars>>

(* ------------------------------------------------------------------ *)
(* Routing resolver: strings                                           *)
(* ------------------------------------------------------------------ *)

\* a string is the sequence of its characters
lower(c) ==
  CASE c = "S" -> "s" [] c = "C" -> "c" [] c = "R" -> "r" [] c = "E" -> "e"
    [] c = "N" -> "n" [] c = "T" -> "t" [] c = "M" -> "m" [] c = "U" -> "u"
    [] c = "X" -> "x" [] c = "A" -> "a" [] c = "B" -> "b" [] OTHER -> c

toLowerCase(str) == [i \in DOMAIN str |-> lower(str[i])]

isSpace(c) == c = " "

occursAt(str, w, i) ==
  /\ i >= 1
  /\ i + Len(w) - 1 <= Len(str)
  /\ SubSeq(str, i, i + Len(w) - 1) = w

\* str.includes(w)
includes(str, w) == \E i \in 1..Len(str) : occursAt(str, w, i)

\* /(^|\s|\/)w(\s|$)/.test(str)
testWord(str, w) ==
  \E i \in 1..Len(str) :
    /\ occursAt(str, w, i)
    /\ (i = 1 \/ isSpace(str[i - 1]) \/ str[i - 1] = "/")
    /\ (i + Len(w) - 1 = Len(str) \/ isSpace(str[i + Len(w)]))

\* the index of the first character from i on that is in chars (inside) or
\* is not (~inside), or Len(str) + 1
RECURSIVE firstFrom(_, _, _, _)
firstFrom(str, i, chars, inside) ==
  IF i > Len(str) THEN Len(str) + 1
  ELSE IF (str[i] \in chars) = inside THEN i
  ELSE firstFrom(str, i + 1, chars, inside)

\* str.split(/\s+/).filter(Boolean)
RECURSIVE splitSpaces(_)
splitSpaces(str) ==
  LET b == firstFrom(str, 1, {" "}, FALSE)
      e == firstFrom(str, b, {" "}, TRUE)
  IN  IF b > Len(str) THEN <<>>
      ELSE <<SubSeq(str, b, e - 1)>> \o splitSpaces(SubSeq(str, e, Len(str)))

\* str.split(":", 1)[0]
beforeColon(str) ==
  SubSeq(str, 1, firstFrom(str, 1, {":"}, TRUE) - 1)

\* path.basename(p): trailing slashes dropped, then what follows the last
\* slash
RECURSIVE basename(_)
basename(p) ==
  IF p # <<>> /\ p[Len(p)] = "/" /\ Len(p) > 1
  THEN basename(SubSeq(p, 1, Len(p) - 1))
  ELSE LET slashes == {i \in 1..Len(p) : p[i] = "/"}
           last == IF slashes = {} THEN 0
                   ELSE CHOOSE i \in slashes : \A j \in slashes : j <= i
       IN  SubSeq(p, last + 1, Len(p))

\* an optional string
Str(str) == [def |-> TRUE, s |-> str]
NoStr == [def |-> FALSE, s |-> <<>>]

Dash(c) == <<"-", c>>
LongOpt(w) == <<"-", "-">> \o w
Session == <<"s", "e", "s", "s", "i", "o", "n">>
Server == <<"s", "e", "r", "v", "e", "r">>
Target == <<"t", "a", "r", "g", "e", "t">>
Tmux == <<"t", "m", "u", "x">>
Zellij == <<"z", "e", "l", "l", "i", "j">>
Screen == <<"s", "c", "r", "e", "e", "n">>

\* extractZellijSession
RECURSIVE zellijSessionFrom(_, _)
zellijSessionFrom(parts, i) ==
  IF i > Len(parts) THEN NoStr
  ELSE IF parts[i] \in {Dash("s"), LongOpt(Session)} /\ i + 1 <= Len(parts)
       THEN Str(parts[i + 1])
  ELSE IF parts[i] = LongOpt(Server) /\ i + 1 <= Len(parts)
       THEN Str(basename(parts[i + 1]))
  ELSE zellijSessionFrom(parts, i + 1)

extractZellijSession(args) == zellijSessionFrom(splitSpaces(args), 1)

\* extractTmuxSession
RECURSIVE tmuxSessionFrom(_, _)
tmuxSessionFrom(parts, i) ==
  IF i > Len(parts) THEN NoStr
  ELSE LET p == parts[i]
       IN  IF p \in {Dash("t"), LongOpt(Target)} /\ i + 1 <= Len(parts)
              /\ parts[i + 1] # <<>>
           THEN Str(beforeColon(parts[i + 1]))
           ELSE IF Len(p) > 2 /\ SubSeq(p, 1, 2) = Dash("t")
           THEN Str(beforeColon(SubSeq(p, 3, Len(p))))
           ELSE tmuxSessionFrom(parts, i + 1)

extractTmuxSession(args) == tmuxSessionFrom(splitSpaces(args), 1)

(* ------------------------------------------------------------------ *)
(* Routing resolver: the multiplexer ancestry walk                     *)
(* ------------------------------------------------------------------ *)

MaxPid == 3
Pids == 1..MaxPid
\* process.pid of the extension
SelfPid == 1

\* a command that passes none of the three tests
NodeCommand ==
  [comm |-> <<"n", "o", "d", "e">>,
   args |-> <<"n", "o", "d", "e", " ", "/", "x", "/">> \o Tmux \o <<"-", "h">>]

\* command name and argument string of the processes of a table
Commands ==
  {[comm |-> Tmux, args |-> Tmux \o <<" ">> \o Dash("t") \o <<" ", "a", ":", "1">>],
   [comm |-> <<"s", "h">>,
    args |-> <<"/", "b", "/">> \o Zellij \o <<" ">> \o Dash("s") \o <<" ", "b">>],
   [comm |-> <<"S", "C", "R", "E", "E", "N">>,
    args |-> <<"S", "C", "R", "E", "E", "N">>],
   NodeCommand}

\* commands that pass more than one of the three tests, with the others
SignatureCommands ==
  Commands \cup
  {[comm |-> Tmux, args |-> Tmux \o <<" ">> \o Zellij],
   [comm |-> Screen, args |-> Screen \o <<" ">> \o Tmux \o <<" ">> \o Dash("t") \o <<" ", "c">>],
   [comm |-> Zellij, args |-> Zellij \o <<" ">> \o Screen]}

\* the rows a line of ps output can give for pid p: any parent, any command
Rows(p) ==
  {[pid |-> p, ppid |-> pp, comm |-> c.comm, args |-> c.args] :
     pp \in 0..MaxPid, c \in Commands}

\* the three tests of the loop body, on the command name and the argument
\* string of a row
isZellij(c) ==
  includes(toLowerCase(c.comm), Zellij) \/ testWord(toLowerCase(c.args), Zellij)
isTmux(c) ==
  includes(toLowerCase(c.comm), Tmux) \/ testWord(toLowerCase(c.args), Tmux)
isScreen(c) ==
  includes(toLowerCase(c.comm), Screen) \/ testWord(toLowerCase(c.args), Screen)

\* the tests in the order tmux, zellij, screen
classifyTmuxFirst(c) ==
  IF isTmux(c)
  THEN [mux |-> "tmux", muxSession |-> extractTmuxSession(c.args)]
  ELSE IF isZellij(c)
  THEN [mux |-> "zellij", muxSession |-> extractZellijSession(c.args)]
  ELSE IF isScreen(c)
  THEN [mux |-> "screen", muxSession |-> NoStr]
  ELSE [mux |-> "none", muxSession |-> NoStr]

\* the kind and the session name the loop body returns for a command, kind
\* none when it returns nothing
classify(c) ==
  IF isZellij(c)
  THEN [mux |-> "zellij", muxSession |-> extractZellijSession(c.args)]
  ELSE IF isTmux(c)
  THEN [mux |-> "tmux", muxSession |-> extractTmuxSession(c.args)]
  ELSE IF isScreen(c)
  THEN [mux |-> "screen", muxSession |-> NoStr]
  ELSE [mux |-> "none", muxSession |-> NoStr]

\* classify, tabulated over the commands a table can hold
Classified == [c \in SignatureCommands |-> classify(c)]

NoMux == [mux |-> "none", muxSession |-> NoStr, muxPid |-> 0]

\* what the loop body returns for a row, NoMux when it returns nothing
matchRow(row) ==
  LET m == Classified[[comm |-> row.comm, args |-> row.args]]
  IN  IF m.mux = "none" THEN NoMux
      ELSE [mux |-> m.mux, muxSession |-> m.muxSession, muxPid |-> row.pid]

\* returns only at a matching row that has no parent row to go on to
returnsAtTop(row) == matchRow(row) # NoMux /\ row.ppid \notin DOMAIN byPid

\* the loop body returns at this row: one of the three tests succeeds
returns(row) == matchRow(row) # NoMux

\* continues without the visited set
continuesUnguarded(c, visited) == c # 0

\* the loop condition: cur && !seen.has(cur); cur = 0 also stands for
\* undefined
continues(c, visited) == c # 0 /\ c \notin visited

\* readPsRows and new Map(rows.map(...)): one line of ps output at a time,
\* a process is either missing from the output or has a row; the snapshot
\* is complete after the last line
ReadPsRows ==
  /\ mpc = "ps"
  /\ psLine <= MaxPid
  /\ \/ byPid' = byPid
     \/ \E row \in Rows(psLine) : byPid' = byPid @@ (psLine :> row)
  /\ psLine' = psLine + 1
  /\ mpc' = IF psLine = MaxPid THEN "start" ELSE "ps"
  /\ UNCHANGED <<startPid, cur, seen, ancestry>>
  /\ UNCHANGED <<aggVars, routeVars, tabVars, extVars>>

\* let cur = byPid.get(pid)?.ppid
WalkStart ==
  /\ mpc = "start"
  /\ cur' = IF startPid \in DOMAIN byPid THEN byPid[startPid].ppid ELSE 0
  /\ seen' = {}
  /\ mpc' = "loop"
  /\ UNCHANGED <<psLine, byPid, startPid, ancestry>>
  /\ UNCHANGED <<aggVars, routeVars, tabVars, extVars>>

\* the loop condition fails: return {}
WalkExit ==
  /\ mpc = "loop"
  /\ ~continues(cur, seen)
  /\ ancestry' = NoMux
  /\ mpc' = "done"
  /\ UNCHANGED <<psLine, byPid, startPid, cur, seen>>
  /\ UNCHANGED <<aggVars, routeVars, tabVars, extVars>>

\* no row for cur: break
WalkBreak ==
  /\ mpc = "loop"
  /\ continues(cur, seen)
  /\ cur \notin DOMAIN byPid
  /\ seen' = seen \cup {cur}
  /\ ancestry' = NoMux
  /\ mpc' = "done"
  /\ UNCHANGED <<psLine, byPid, startPid, cur>>
  /\ UNCHANGED <<aggVars, routeVars, tabVars, extVars>>

\* the row matches a signature: return it
WalkMatch ==
  /\ mpc = "loop"
  /\ continues(cur, seen)
  /\ cur \in DOMAIN byPid
  /\ returns(byPid[cur])
  /\ seen' = seen \cup {cur}
  /\ ancestry' = matchRow(byPid[cur])
  /\ mpc' = "done"
  /\ UNCHANGED <<psLine, byPid, startPid, cur>>
  /\ UNCHANGED <<aggVars, routeVars, tabVars, extVars>>

\* no match: cur = row.ppid
WalkAdvance ==
  /\ mpc = "loop"
  /\ continues(cur, seen)
  /\ cur \in DOMAIN byPid
  /\ ~returns(byPid[cur])
  /\ seen' = seen \cup {cur}
  /\ cur' = byPid[cur].ppid
  /\ UNCHANGED <<psLine, byPid, startPid, ancestry, mpc>>
  /\ UNCHANGED <<aggVars, routeVars, tabVars, extVars>>

(* ------------------------------------------------------------------ *)
(* Routing resolver: ancestry and environment evidence reconciled      *)
(* ------------------------------------------------------------------ *)

\* a string value is truthy when it is defined and not empty
truthyStr(o) == o.def /\ o.s # <<>>

\* the values an environment variable can have
EnvValues == {NoStr, Str(<<>>), Str(<<"0">>)}
SessionValues == {NoStr, Str(<<>>), Str(<<"b", "a", "r">>)}

\* process.env as getRoutingSummary reads it
Envs ==
  [tmux : {NoStr, Str(<<"/", "t", ",", "1">>)}, zellij : EnvValues,
   zellijSessionName : SessionValues]

\* getTmuxSessionFromCurrentClient: output?.trim() || undefined
ClientSessions == {NoStr, Str(<<"b", "a", "r">>)}

\* envMux: "none" stands for undefined
envMuxOf(e) ==
  IF truthyStr(e.zellij) \/ truthyStr(e.zellijSessionName) THEN "zellij"
  ELSE IF truthyStr(e.tmux) THEN "tmux"
  ELSE "none"

\* envSession
envSessionOf(e, client) ==
  IF envMuxOf(e) = "zellij" THEN e.zellijSessionName
  ELSE IF envMuxOf(e) = "tmux" THEN client
  ELSE NoStr

\* source names the environment even when both report the same kind
sourceEnvFirst(envMux, ancMux) ==
  IF envMux # "none" THEN "env"
  ELSE IF ancMux # "none" THEN "ancestry"
  ELSE "none"

\* source
sourceOf(envMux, ancMux) ==
  IF envMux # "none" /\ ancMux # "none" /\ envMux = ancMux THEN "mixed"
  ELSE IF envMux # "none" THEN "env"
  ELSE IF ancMux # "none" THEN "ancestry"
  ELSE "none"

\* mux keeps the kind of the ancestry whenever the ancestry has one
muxAncestryFirst(envMux, ancMux) ==
  IF ancMux # "none" THEN ancMux ELSE envMux

\* mux
muxOf(envMux, ancMux) ==
  IF envMux # "none" /\ ancMux # "none" /\ envMux = ancMux THEN ancMux
  ELSE IF envMux # "none" THEN envMux
  ELSE ancMux

\* muxSession keeps the session name of the ancestry whenever it has one
sessionAncestryFirst(envSession, ancSession) ==
  IF ancSession.def THEN ancSession ELSE envSession

\* muxSession
sessionOf(envSession, ancSession) ==
  IF truthyStr(envSession) THEN envSession ELSE ancSession

NoRouting == [mux |-> "none", muxSession |-> NoStr, muxPid |-> 0, source |-> "none"]

\* the multiplexer fields of the routing record
routingOf(anc, e, client) ==
  [mux |-> muxOf(envMuxOf(e), anc.mux),
   muxSession |-> sessionOf(envSessionOf(e, client), anc.muxSession),
   muxPid |-> anc.muxPid,
   source |-> sourceOf(envMuxOf(e), anc.mux)]

\* getRoutingSummary after the ancestry walk: read the environment, ask the
\* tmux client for its session when the environment names tmux, reconcile
Reconcile ==
  /\ mpc = "done"
  /\ \E e \in Envs, client \in ClientSessions :
       /\ env' = e
       /\ clientSession' = IF envMuxOf(e) = "tmux" THEN client ELSE NoStr
       /\ routing' = routingOf(ancestry, e, clientSession')
  /\ mpc' = "routed"
  /\ UNCHANGED <<psLine, byPid, startPid, cur, seen, ancestry>>
  /\ UNCHANGED <<aggVars, tabVars, extVars>>

\* the process tables of a process with at most one ancestor, whose command
\* is any of SignatureCommands
SimpleTables ==
  {<<>>} \cup
  {(SelfPid :> [pid |-> SelfPid, ppid |-> pp, comm |-> NodeCommand.comm,
               args |-> NodeCommand.args]) : pp \in 0..MaxPid} \cup
  {(SelfPid :> [pid |-> SelfPid, ppid |-> par, comm |-> NodeCommand.comm,
               args |-> NodeCommand.args]) @@
   (par :> [pid |-> par, ppid |-> 0, comm |-> c.comm, args |-> c.args]) :
     par \in Pids \ {SelfPid}, c \in SignatureCommands}

RouteIdle ==
  /\ env = [tmux |-> NoStr, zellij |-> NoStr, zellijSessionName |-> NoStr]
  /\ clientSession = NoStr
  /\ routing = NoRouting

RouteInit ==
  /\ psLine = MaxPid + 1
  /\ byPid \in SimpleTables
  /\ startPid = SelfPid
  /\ cur = 0
  /\ seen = {}
  /\ ancestry = NoMux
  /\ mpc = "start"

(* ------------------------------------------------------------------ *)
(* Routing resolver: zellij tab matching                               *)
(* ------------------------------------------------------------------ *)

MaxTabs == 2

\* str.split("/") without its empty parts
RECURSIVE splitSlashes(_)
splitSlashes(str) ==
  LET b == firstFrom(str, 1, {"/"}, FALSE)
      e == firstFrom(str, b, {"/"}, TRUE)
  IN  IF b > Len(str) THEN <<>>
      ELSE <<SubSeq(str, b, e - 1)>> \o splitSlashes(SubSeq(str, e, Len(str)))

\* the parts of a path with "." dropped and ".." resolved; above the start
\* of a relative path ".." is kept
RECURSIVE resolveDots(_, _, _, _)
resolveDots(parts, i, acc, allowAbove) ==
  IF i > Len(parts) THEN acc
  ELSE IF parts[i] = <<".">> THEN resolveDots(parts, i + 1, acc, allowAbove)
  ELSE IF parts[i] = <<".", ".">>
  THEN IF acc # <<>> /\ acc[Len(acc)] # <<".", ".">>
       THEN resolveDots(parts, i + 1, SubSeq(acc, 1, Len(acc) - 1), allowAbove)
       ELSE IF allowAbove
       THEN resolveDots(parts, i + 1, Append(acc, parts[i]), allowAbove)
       ELSE resolveDots(parts, i + 1, acc, allowAbove)
  ELSE resolveDots(parts, i + 1, Append(acc, parts[i]), allowAbove)

RECURSIVE joinSlashes(_)
joinSlashes(parts) ==
  IF parts = <<>> THEN <<>>
  ELSE IF Len(parts) = 1 THEN parts[1]
  ELSE parts[1] \o <<"/">> \o joinSlashes(Tail(parts))

\* path.normalize on a POSIX system
pathNormalize(p) ==
  IF p = <<>> THEN <<".">>
  ELSE LET isAbsolute == p[1] = "/"
           trailing == p[Len(p)] = "/"
           body == joinSlashes(resolveDots(splitSlashes(p), 1, <<>>, ~isAbsolute))
       IN  IF body = <<>>
           THEN IF isAbsolute THEN <<"/">>
                ELSE IF trailing THEN <<".", "/">> ELSE <<".">>
           ELSE (IF isAbsolute THEN <<"/">> ELSE <<>>) \o body
                \o (IF trailing THEN <<"/">> ELSE <<>>)

\* str.replace(/\\/g, "/")
slashes(str) == [i \in DOMAIN str |-> IF str[i] = "\\" THEN "/" ELSE str[i]]

\* normalize: path.normalize(v || ""), backslashes to slashes, lower case
normalize(v) == toLowerCase(slashes(pathNormalize(v)))

\* str.endsWith(suf)
endsWith(str, suf) ==
  /\ Len(suf) <= Len(str)
  /\ SubSeq(str, Len(str) - Len(suf) + 1, Len(str)) = suf

\* array.find(P): the index of the first element that satisfies, 0 for none
findFirst(S) == IF S = {} THEN 0 ELSE CHOOSE i \in S : \A j \in S : i <= j

\* the test of the exact tier
isExact(t, cwdNorm) == normalize(t.paneCwd) = cwdNorm

\* the suffix test without the separator before the pane directory
isSuffixTextual(t, cwdNorm) ==
  LET paneNorm == normalize(t.paneCwd)
  IN  Len(paneNorm) > 0 /\ (cwdNorm = paneNorm \/ endsWith(cwdNorm, paneNorm))

\* the test of the suffix tier
isSuffix(t, cwdNorm) ==
  LET paneNorm == normalize(t.paneCwd)
  IN  Len(paneNorm) > 0
      /\ (cwdNorm = paneNorm \/ endsWith(cwdNorm, <<"/">> \o paneNorm))

NoTab == [index |-> 0, name |-> <<>>, paneCwd |-> <<>>, match |-> "none"]
matchedTab(t, tier) ==
  [index |-> t.index, name |-> t.name, paneCwd |-> t.paneCwd, match |-> tier]

NoOutput == [ok |-> FALSE, tabs |-> <<>>]
NoZr == [def |-> FALSE, tabCandidates |-> <<>>, matchedTab |-> NoTab]

\* the suffix tier before the exact tier
getZellijRoutingSuffixFirst(out, callerCwd) ==
  IF ~out.ok THEN NoZr
  ELSE LET tabs == out.tabs
           cwdNorm == normalize(callerCwd)
           exact == findFirst({i \in DOMAIN tabs : isExact(tabs[i], cwdNorm)})
           suffix == findFirst({i \in DOMAIN tabs : isSuffix(tabs[i], cwdNorm)})
           hit == IF tabs = <<>> THEN NoTab
                  ELSE IF suffix # 0 THEN matchedTab(tabs[suffix], "suffix")
                  ELSE IF exact # 0 THEN matchedTab(tabs[exact], "exact")
                  ELSE IF Len(tabs) = 1 THEN matchedTab(tabs[1], "single_candidate")
                  ELSE NoTab
       IN  [def |-> TRUE, tabCandidates |-> tabs, matchedTab |-> hit]

\* getZellijRouting on the candidates parsed from the layout dump
getZellijRouting(out, callerCwd) ==
  IF ~out.ok THEN NoZr
  ELSE LET tabs == out.tabs
           cwdNorm == normalize(callerCwd)
           exact == findFirst({i \in DOMAIN tabs : isExact(tabs[i], cwdNorm)})
           suffix == findFirst({i \in DOMAIN tabs : isSuffix(tabs[i], cwdNorm)})
           hit == IF tabs = <<>> THEN NoTab
                  ELSE IF exact # 0 THEN matchedTab(tabs[exact], "exact")
                  ELSE IF suffix # 0 THEN matchedTab(tabs[suffix], "suffix")
                  ELSE IF Len(tabs) = 1 THEN matchedTab(tabs[1], "single_candidate")
                  ELSE NoTab
       IN  [def |-> TRUE, tabCandidates |-> tabs, matchedTab |-> hit]

\* working directories of panes in a layout dump
PaneCwds ==
  {<<"/", "a">>, <<"/", "a", "/", "b">>, <<"a">>, <<"a", "/", "b">>,
   <<"/", "A", "/", "B">>, <<"/", "a", "/", "/", "b", "/">>, <<>>}

\* working directories of the caller
Cwds ==
  {<<"/", "a", "/", "b">>, <<"/", "x", "/", "a", "/", "b">>, <<"/", "x">>,
   <<"\\", "a", "\\", "B">>}

\* parseZellijPiTabs: one pi pane in each of the first tabs of the layout
CandidateLists ==
  UNION {{[i \in 1..n |-> [index |-> i, name |-> <<"t">>, paneCwd |-> f[i]]] :
            f \in [1..n -> PaneCwds]} : n \in 0..MaxTabs}

Outputs == {NoOutput} \cup {[ok |-> TRUE, tabs |-> tabs] : tabs \in CandidateLists}

TabIdle ==
  /\ layout = <<>>
  /\ output = NoOutput
  /\ cwd = <<>>
  /\ zr = NoZr
  /\ tpc = "idle"

TabInit ==
  /\ layout = <<>>
  /\ output \in Outputs
  /\ cwd \in Cwds
  /\ zr = NoZr
  /\ tpc = "call"

\* const zr = getZellijRouting(muxSession, ctx.cwd)
GetZellijRouting ==
  /\ tpc = "call"
  /\ zr' = getZellijRouting(output, cwd)
  /\ tpc' = "done"
  /\ UNCHANGED <<layout, output, cwd>>
  /\ UNCHANGED <<aggVars, muxVars, routeVars, extVars>>

(* ------------------------------------------------------------------ *)
(* The layout dump of zellij                                           *)
(* ------------------------------------------------------------------ *)

MaxLines == 3

\* str.startsWith(w)
startsWith(str, w) == occursAt(str, w, 1)

\* str.trim(), for strings whose only white space is the space
RECURSIVE trimEnd(_)
trimEnd(str) ==
  IF str = <<>> \/ str[Len(str)] # " " THEN str
  ELSE trimEnd(SubSeq(str, 1, Len(str) - 1))

trim(str) ==
  trimEnd(SubSeq(str, firstFrom(str, 1, {" "}, FALSE), Len(str)))

\* String(n) of a natural number
RECURSIVE decimal(_)
decimal(n) ==
  LET d == <<"0", "1", "2", "3", "4", "5", "6", "7", "8", "9">>[(n % 10) + 1]
  IN  IF n < 10 THEN <<d>> ELSE decimal(n \div 10) \o <<d>>

\* the match of /key"([^"]+)"/ that begins at i: where the group ends, 0
\* when there is no match at i
groupEnd(line, key, i) ==
  LET b == i + Len(key) + 1
      e == firstFrom(line, b, {"\""}, TRUE)
  IN  IF occursAt(line, key \o <<"\"">>, i) /\ e > b /\ e <= Len(line)
      THEN e ELSE 0

\* line.match(/key"([^"]+)"/)?.[1]: the group of the leftmost match
group(line, key) ==
  LET at == findFirst({i \in 1..Len(line) : groupEnd(line, key, i) # 0})
  IN  IF at = 0 THEN NoStr
      ELSE Str(SubSeq(line, at + Len(key) + 1, groupEnd(line, key, at) - 1))

TabMarker == <<"t", "a", "b", " ", "n", "a", "m", "e", "=">>
NameKey == <<"n", "a", "m", "e", "=">>
CwdKey == <<"c", "w", "d", "=">>
PiPane ==
  <<"p", "a", "n", "e", " ", "c", "o", "m", "m", "a", "n", "d", "=", "\"",
    "p", "i", "\"">>

\* the loop of parseZellijPiTabs from one line on
RECURSIVE parseFrom(_, _, _, _)
parseFrom(lines, tabIndex, currentTab, tabs) ==
  IF lines = <<>> THEN tabs
  ELSE LET line == trim(Head(lines))
           m == group(line, NameKey)
           c == group(line, CwdKey)
       IN  IF line = <<>> THEN parseFrom(Tail(lines), tabIndex, currentTab, tabs)
           ELSE IF startsWith(line, TabMarker)
           THEN parseFrom(Tail(lines), tabIndex + 1,
                          IF m.def THEN m.s
                          ELSE <<"t", "a", "b", "-">> \o decimal(tabIndex + 1),
                          tabs)
           ELSE IF includes(line, PiPane)
           THEN parseFrom(Tail(lines), tabIndex, currentTab,
                          Append(tabs, [index |-> tabIndex, name |-> currentTab,
                                        paneCwd |-> IF c.def THEN c.s ELSE <<>>]))
           ELSE parseFrom(Tail(lines), tabIndex, currentTab, tabs)

\* parseZellijPiTabs, on the lines of the layout text
parseZellijPiTabs(lines) == parseFrom(lines, 0, <<>>, <<>>)

\* lines of a layout dump: tab markers with a name, indented, without a
\* name; pi panes with and without a directory; another pane; a blank line
Lines ==
  {<<"t", "a", "b", " ", "n", "a", "m", "e", "=", "\"", "a", "\"">>,
   <<" ", " ", "t", "a", "b", " ", "n", "a", "m", "e", "=", "\"", "b",
        "\"", " ", "{">>,
   <<"t", "a", "b", " ", "n", "a", "m", "e", "=", "\"", "\"">>,
   <<"p", "a", "n", "e", " ", "c", "o", "m", "m", "a", "n", "d", "=",
        "\"", "p", "i", "\"", " ", "c", "w", "d", "=", "\"", "/", "a",
        "\"">>,
   <<" ", " ", " ", " ", "p", "a", "n", "e", " ", "c", "o", "m", "m",
        "a", "n", "d", "=", "\"", "p", "i", "\"">>,
   <<"p", "a", "n", "e", " ", "c", "o", "m", "m", "a", "n", "d", "=",
        "\"", "v", "i", "\"", " ", "c", "w", "d", "=", "\"", "/", "a",
        "\"">>,
   <<" ", " ">>}

\* the layout texts of at most MaxLines lines
Layouts == UNION {[1..n -> Lines] : n \in 0..MaxLines}

\* the dump has been read: parseZellijPiTabs(out.stdout)
ParseLayout ==
  /\ tpc = "parse"
  /\ output' = [ok |-> TRUE, tabs |-> parseZellijPiTabs(layout)]
  /\ tpc' = "call"
  /\ UNCHANGED <<layout, cwd, zr>>
  /\ UNCHANGED <<aggVars, muxVars, routeVars, extVars>>

\* zellij has answered with any layout text
LayoutInit ==
  /\ layout \in Layouts
  /\ output = NoOutput
  /\ cwd = <<"/", "a">>
  /\ zr = NoZr
  /\ tpc = "parse"

(* ------------------------------------------------------------------ *)
(* Extension: lifecycle handlers, heartbeat, the telemetry file        *)
(* ------------------------------------------------------------------ *)

MaxSeq == 3
MaxTimers == 2
MaxPeriods == 2
MaxCycleMs == 2

\* the timers setInterval can return
TimerIds == 1..MaxTimers

\* events whose handler only publishes: one of the ten lifecycle events
\* registered with the same handler, and the command
PublishEvents == {"agent_end", "command:pi-telemetry"}

DefaultHeartbeatMs == 1500
MinHeartbeatMs == 250

\* getHeartbeatMs: Number(process.env.PI_TELEMETRY_HEARTBEAT_MS ?? ""), the
\* default unless finite and positive, never below the minimum (only whole
\* numbers are drawn, so Math.floor has nothing to cut)
getHeartbeatMs(envv) ==
  LET configured == Number(IF envv.t = "undefined" THEN EmptyStr ELSE envv)
      raw == IF isFinite(configured) /\ configured.v > 0 THEN configured.v
             ELSE DefaultHeartbeatMs
  IN  IF raw > MinHeartbeatMs THEN raw ELSE MinHeartbeatMs

\* const startedAt = Date.now(), when the extension is loaded
startedAt == Now

\* const heartbeatMs = getHeartbeatMs(), PI_TELEMETRY_HEARTBEAT_MS not set
heartbeatMs == getHeartbeatMs(Undef)

\* the interval is twice heartbeatMs
intervalDoubled(ms) == ms + ms

\* setInterval(..., heartbeatMs): the delay between two calls of the callback
interval(ms) == ms

\* path.join(telemetryDir, `${process.pid}.json`)
telemetryFile == F1

\* the document is written in place
tmpPathInPlace(filePath) == filePath

\* `${filePath}.tmp-${process.pid}`
tmpPath(filePath) == Name(filePath.base \o filePath.suffix, ".tmp-" \o "1")

\* state.activity
activityOf(isIdle, hasPendingMessages) ==
  IF isIdle /\ ~hasPendingMessages THEN "waiting_input"
  ELSE IF isIdle THEN "unknown"
  ELSE "working"

\* what ctx.isIdle() and ctx.hasPendingMessages() return when a handler
\* runs: the agent waits for input, or it works with messages pending
Contexts ==
  {[isIdle |-> TRUE, hasPendingMessages |-> FALSE],
   [isIdle |-> FALSE, hasPendingMessages |-> TRUE]}

\* let lastSnapshot: InstanceSnapshot | undefined
NoSnapshot ==
  [def |-> FALSE, schemaVersion |-> 0,
   process |-> [pid |-> 0, startedAt |-> 0, updatedAt |-> 0, uptimeMs |-> 0,
                heartbeatSeq |-> 0, heartbeatMs |-> 0],
   session |-> "", activity |-> "", lastEvent |-> ""]

\* makeSnapshot with schemaVersion 1
makeSnapshotV1(isIdle, hasPendingMessages, lastEvent, t, seq) ==
  [def |-> TRUE, schemaVersion |-> 1,
   process |-> [pid |-> SelfPid, startedAt |-> startedAt, updatedAt |-> t,
                uptimeMs |-> t - startedAt, heartbeatSeq |-> seq,
                heartbeatMs |-> heartbeatMs],
   session |-> "s", activity |-> activityOf(isIdle, hasPendingMessages),
   lastEvent |-> lastEvent]

\* makeSnapshot at time t: the fields of the record the aggregator reads and
\* the ones a heartbeat rewrites, with the event that caused the publish
makeSnapshot(isIdle, hasPendingMessages, lastEvent, t, seq) ==
  [def |-> TRUE, schemaVersion |-> 2,
   process |-> [pid |-> SelfPid, startedAt |-> startedAt, updatedAt |-> t,
                uptimeMs |-> t - startedAt, heartbeatSeq |-> seq,
                heartbeatMs |-> heartbeatMs],
   session |-> "s", activity |-> activityOf(isIdle, hasPendingMessages),
   lastEvent |-> lastEvent]

\* the record of a tick with lastEvent naming the heartbeat
nextSnapshotNamesTick(last, t, seq) ==
  [last EXCEPT !.process.updatedAt = t, !.process.uptimeMs = t - startedAt,
               !.process.heartbeatSeq = seq, !.lastEvent = "heartbeat"]

\* the record a tick writes: {...lastSnapshot, process: {...lastSnapshot.process,
\* updatedAt: now, uptimeMs: now - startedAt, heartbeatSeq}}
nextSnapshot(last, t, seq) ==
  [last EXCEPT !.process.updatedAt = t, !.process.uptimeMs = t - startedAt,
               !.process.heartbeatSeq = seq]

\* JSON.stringify of a record and JSON.parse of the text: numbers come back
\* as numbers, strings as strings, under the keys the aggregator looks at
stringify(d) ==
  Doc("ok", Num(d.schemaVersion), Num(d.process.pid), Num(d.process.updatedAt),
      d.activity, d.session, NoCtx)

\* what a path holds: nothing, a document written in part, a whole document;
\* seq is the heartbeatSeq of the document
Absent == [state |-> "absent", seq |-> 0, doc |-> NoSnapshot]
Partial(d) == [state |-> "partial", seq |-> d.process.heartbeatSeq, doc |-> d]
Whole(d) == [state |-> "whole", seq |-> d.process.heartbeatSeq, doc |-> d]

\* the text readJson finds at a path: none, the beginning of a JSON text,
\* or the JSON text of the document
textOf(c) ==
  IF c.state = "absent" THEN NoFile
  ELSE IF c.state = "partial" THEN Blank("garbage")
  ELSE stringify(c.doc)

Paths == {telemetryFile, tmpPath(telemetryFile), tmpPathInPlace(telemetryFile)}

\* fs.writeFileSync has opened and truncated the path and written a part
writeBegun(fs, path, d) == [fs EXCEPT ![path] = Partial(d)]
\* fs.writeFileSync has returned
writeDone(fs, path, d) == [fs EXCEPT ![path] = Whole(d)]
\* fs.renameSync(from, to)
rename(fs, from, to) ==
  IF from = to THEN fs ELSE [fs EXCEPT ![to] = fs[from], ![from] = Absent]
\* safeUnlink
unlink(fs, path) == [fs EXCEPT ![path] = Absent]

\* publish up to the first write of atomicWriteJson: heartbeatSeq += 1,
\* lastSnapshot = makeSnapshot(ctx, eventName), writeFileSync(tmpPath, ...)
\* under way
publishBegins(ev) ==
  /\ wpc = "idle"
  /\ heartbeatSeq < MaxSeq
  /\ handled' = ev
  /\ running' = ev
  /\ heartbeatSeq' = heartbeatSeq + 1
  /\ \E ctx \in Contexts :
       lastSnapshot' = makeSnapshot(ctx.isIdle, ctx.hasPendingMessages, ev,
                                    clock, heartbeatSeq + 1)
  /\ fsys' = writeBegun(fsys, tmpPath(telemetryFile), lastSnapshot')
  /\ wpc' = "write"

\* pi.on("session_start"): publish ...
SessionStart ==
  /\ nextTimer <= MaxTimers
  /\ publishBegins("session_start")
  /\ stopped' = FALSE
  /\ UNCHANGED <<heartbeat, timers, nextTimer, escaped, timeVars, rfiles,
                 observed, rpc>>
  /\ UNCHANGED <<aggVars, muxVars, routeVars, tabVars>>

\* the handlers that publish and return
Publish ==
  /\ \E ev \in PublishEvents : publishBegins(ev)
  /\ UNCHANGED <<heartbeat, timers, nextTimer, stopped, escaped, timeVars,
                 rfiles, observed, rpc>>
  /\ UNCHANGED <<aggVars, muxVars, routeVars, tabVars>>

\* the interval callback of a timer that is due: nothing without a
\* snapshot, else the next snapshot is written; the timer is due again one
\* interval later
Tick ==
  /\ wpc = "idle"
  /\ heartbeatSeq < MaxSeq
  /\ \E id \in timers :
       /\ due[id] = clock
       /\ due' = [due EXCEPT ![id] = clock + interval(heartbeatMs)]
  /\ IF ~lastSnapshot.def
     THEN UNCHANGED <<heartbeatSeq, lastSnapshot, fsys, wpc, running>>
     ELSE /\ running' = "heartbeat"
          /\ heartbeatSeq' = heartbeatSeq + 1
          /\ lastSnapshot' = nextSnapshot(lastSnapshot, clock, heartbeatSeq + 1)
          /\ fsys' = writeBegun(fsys, tmpPath(telemetryFile), lastSnapshot')
          /\ wpc' = "write"
  /\ UNCHANGED <<heartbeat, timers, nextTimer, handled, stopped, escaped, clock,
                 rfiles, observed, rpc>>
  /\ UNCHANGED <<aggVars, muxVars, routeVars, tabVars>>

\* fs.writeFileSync(tmpPath, JSON.stringify(data)) returns
WriteTmp ==
  /\ wpc = "write"
  /\ fsys' = writeDone(fsys, tmpPath(telemetryFile), lastSnapshot)
  /\ wpc' = "rename"
  /\ UNCHANGED <<lifeVars, timeVars, rfiles, observed, rpc>>
  /\ UNCHANGED <<aggVars, muxVars, routeVars, tabVars>>

\* the timers after startHeartbeat, without the clearInterval
timersAfterStartLeaky(ts, hb, id) == ts \cup {id}

\* the timers after startHeartbeat: if (heartbeat) clearInterval(heartbeat);
\* heartbeat = setInterval(...)
timersAfterStart(ts, hb, id) == (ts \ {hb}) \cup {id}

\* when each timer of ts is due: as before, and the one just set one
\* interval from t
dueAfterStart(d, ts, id, t) ==
  [x \in TimerIds |-> IF x = id THEN t + interval(heartbeatMs)
                      ELSE IF x \in ts THEN d[x] ELSE 0]

\* fs.renameSync(tmpPath, filePath), and the rest of the handler: after
\* session_start, startHeartbeat
Rename ==
  /\ wpc = "rename"
  /\ fsys' = rename(fsys, tmpPath(telemetryFile), telemetryFile)
  /\ wpc' = "idle"
  /\ running' = "none"
  /\ IF running = "session_start"
     THEN /\ timers' = timersAfterStart(timers, heartbeat, nextTimer)
          /\ due' = dueAfterStart(due, timers', nextTimer, clock)
          /\ heartbeat' = nextTimer
          /\ nextTimer' = nextTimer + 1
     ELSE UNCHANGED <<heartbeat, timers, nextTimer, due>>
  /\ UNCHANGED <<heartbeatSeq, lastSnapshot, handled, stopped, escaped, clock,
                 rfiles, observed, rpc>>
  /\ UNCHANGED <<aggVars, muxVars, routeVars, tabVars>>

\* fs.mkdirSync, fs.writeFileSync or fs.renameSync throws: atomicWriteJson,
\* publish and the interval callback catch nothing, so the error leaves the
\* handler or the callback that is running, and what follows the publish in
\* the handler is not run; the temporary file stays as the call left it
FsThrows ==
  /\ wpc \in {"write", "rename"}
  /\ escaped' = running
  /\ running' = "none"
  /\ wpc' = "idle"
  /\ \/ fsys' = fsys
     \/ wpc = "write" /\ fsys' = unlink(fsys, tmpPath(telemetryFile))
  /\ UNCHANGED <<heartbeat, timers, nextTimer, heartbeatSeq, lastSnapshot,
                 handled, stopped, timeVars, rfiles, observed, rpc>>
  /\ UNCHANGED <<aggVars, muxVars, routeVars, tabVars>>

\* pi.on("session_shutdown"): stopHeartbeat(); safeUnlink(telemetryFile)
SessionShutdown ==
  /\ wpc = "idle"
  /\ handled' = "session_shutdown"
  /\ stopped' = TRUE
  /\ timers' = IF heartbeat = 0 THEN timers ELSE timers \ {heartbeat}
  /\ due' = [x \in TimerIds |-> IF x \in timers' THEN due[x] ELSE 0]
  /\ heartbeat' = 0
  /\ fsys' = unlink(fsys, telemetryFile)
  /\ UNCHANGED <<nextTimer, heartbeatSeq, lastSnapshot, running, escaped, clock,
                 wpc, rfiles, observed, rpc>>
  /\ UNCHANGED <<aggVars, muxVars, routeVars, tabVars>>

\* the least of a non-empty set of numbers
least(S) == CHOOSE x \in S : \A y \in S : x <= y

\* time passes between two callbacks, by a heartbeat period or up to the
\* instant the next timer is due, whichever comes first: the callbacks are
\* called on time
TimePasses ==
  /\ wpc = "idle"
  /\ clock < startedAt + MaxPeriods * heartbeatMs
  /\ \A id \in timers : due[id] > clock
  /\ clock' = least({clock + heartbeatMs} \cup {due[id] : id \in timers})
  /\ UNCHANGED <<lifeVars, due, fsVars>>
  /\ UNCHANGED <<aggVars, muxVars, routeVars, tabVars>>

\* time passes inside a publish cycle, between the Date.now() of the record
\* and the end of the handler or callback: MaxCycleMs at most, and not
\* beyond the instant the next timer is due
CycleTakesTime ==
  /\ wpc # "idle"
  /\ clock - lastSnapshot.process.updatedAt < MaxCycleMs
  /\ clock < startedAt + MaxPeriods * heartbeatMs
  /\ \A id \in timers : due[id] > clock
  /\ clock' = least({clock + MaxCycleMs} \cup {due[id] : id \in timers})
  /\ UNCHANGED <<lifeVars, due, fsVars>>
  /\ UNCHANGED <<aggVars, muxVars, routeVars, tabVars>>

\* nothing read yet in this pass
NoObservation ==
  [file |-> telemetryFile, content |-> [state |-> "absent", seq |-> 0],
   writer |-> "idle", seq |-> 0,
   began |-> FALSE, listed |-> FALSE, read |-> FALSE, live |-> FALSE,
   passes |-> FALSE, qualifies |-> FALSE, ageMs |-> Null]

\* the thresholds of the aggregator that watches the extension: just above
\* a heartbeat period, and just above one and two publish cycles
StaleSamples == {heartbeatMs + 1, heartbeatMs + 2 * MaxCycleMs + 1}

\* the aggregator, another process, run with any of the thresholds:
\* const now = Date.now(), fs.readdirSync(telemetryDir) and the filter on
\* the names, in any order of enumeration; began tells whether the
\* heartbeat of the extension is running
ListFiles ==
  /\ rpc = "list"
  /\ now' = clock
  /\ staleMs' \in StaleSamples
  /\ \E order \in Orders({n \in Paths : fsys[n] # Absent /\ endsWithJson(n)}) :
       /\ rfiles' = order
       /\ observed' = [NoObservation EXCEPT
                         !.began = (heartbeat # 0),
                         !.listed = (\E i \in DOMAIN order :
                                       order[i] = telemetryFile)]
  /\ rpc' = "read"
  /\ UNCHANGED <<fsys, wpc>>
  /\ UNCHANGED <<lifeVars, timeVars, aggRest, muxVars, routeVars, tabVars>>

\* what the collecting loop makes of a file: skipped when it does not pass
\* the schema check, else annotated and tested for the qualifying set
collected(file, content) ==
  LET data == readJson(textOf(content))
  IN  IF normalizeInstance(data)
      THEN [passes |-> TRUE, qualifies |-> qualifies(annotate(file, data)),
            ageMs |-> annotate(file, data).ageMs]
      ELSE [passes |-> FALSE, qualifies |-> FALSE, ageMs |-> Null]

\* the aggregator reads the next file it has enumerated; what it finds
\* there is kept with the step the writer is at, the heartbeatSeq of the
\* writer and whether its heartbeat is running
ReadFile ==
  /\ rpc = "read"
  /\ rfiles # <<>>
  /\ observed' = [observed EXCEPT
                    !.file = Head(rfiles),
                    !.content = [state |-> fsys[Head(rfiles)].state,
                                 seq |-> fsys[Head(rfiles)].seq],
                    !.writer = wpc,
                    !.seq = heartbeatSeq,
                    !.read = TRUE,
                    !.live = (heartbeat # 0),
                    !.passes = collected(Head(rfiles), fsys[Head(rfiles)]).passes,
                    !.qualifies =
                       collected(Head(rfiles), fsys[Head(rfiles)]).qualifies,
                    !.ageMs = collected(Head(rfiles), fsys[Head(rfiles)]).ageMs]
  /\ rfiles' = Tail(rfiles)
  /\ UNCHANGED <<fsys, wpc, rpc>>
  /\ UNCHANGED <<lifeVars, timeVars, aggVars, muxVars, routeVars, tabVars>>

\* the pass has read every file it enumerated and the aggregator exits;
\* another run can follow
EndPass ==
  /\ rpc = "read"
  /\ rfiles = <<>>
  /\ rpc' = "list"
  /\ now' = Now
  /\ staleMs' = DefaultStaleMs
  /\ observed' = NoObservation
  /\ UNCHANGED <<fsys, wpc, rfiles>>
  /\ UNCHANGED <<lifeVars, timeVars, aggRest, muxVars, routeVars, tabVars>>

ExtIdle ==
  /\ heartbeat = 0
  /\ timers = {}
  /\ nextTimer = 1
  /\ heartbeatSeq = 0
  /\ lastSnapshot = NoSnapshot
  /\ handled = "none"
  /\ running = "none"
  /\ stopped = FALSE
  /\ escaped = "none"
  /\ clock = startedAt
  /\ due = [x \in TimerIds |-> 0]
  /\ fsys = [n \in Paths |-> Absent]
  /\ wpc = "idle"
  /\ rfiles = <<>>
  /\ observed = NoObservation
  /\ rpc = "idle"

\* the extension is loaded, the aggregator may start a pass
ExtInit ==
  /\ heartbeat = 0
  /\ timers = {}
  /\ nextTimer = 1
  /\ heartbeatSeq = 0
  /\ lastSnapshot = NoSnapshot
  /\ handled = "none"
  /\ running = "none"
  /\ stopped = FALSE
  /\ escaped = "none"
  /\ clock = startedAt
  /\ due = [x \in TimerIds |-> 0]
  /\ fsys = [n \in Paths |-> Absent]
  /\ wpc = "idle"
  /\ rfiles = <<>>
  /\ observed = NoObservation
  /\ rpc = "list"

(* ------------------------------------------------------------------ *)
(* Specifications                                                      *)
(* ------------------------------------------------------------------ *)

AggIdle ==
  /\ now = Now
  /\ alive = AlivePids
  /\ staleMs = DefaultStaleMs
  /\ dirExists = FALSE
  /\ dir = EmptyDir
  /\ pc = "idle"
  /\ files = <<>>
  /\ instances = <<>>
  /\ active = <<>>
  /\ counts = NoCounts
  /\ aggregate = ""
  /\ context = NoContext
  /\ sessions = NoSessions
  /\ instancesByPid = NoLookup

MuxIdle ==
  /\ psLine = 1
  /\ byPid = <<>>
  /\ startPid = 0
  /\ cur = 0
  /\ seen = {}
  /\ ancestry = NoMux
  /\ mpc = "idle"

MuxInit ==
  /\ psLine = 1
  /\ byPid = <<>>
  /\ startPid = SelfPid
  /\ cur = 0
  /\ seen = {}
  /\ ancestry = NoMux
  /\ mpc = "ps"

\* one aggregation pass over any telemetry directory
Init == AggInit /\ MuxIdle /\ RouteIdle /\ TabIdle /\ ExtIdle
Next == ReadDir \/ Collect \/ Reduce \/ Group \/ GroupThrows \/ Emit
Spec == Init /\ [][Next]_vars

\* one ancestry walk over any process table; the walk is a synchronous loop,
\* so it takes its next step whenever it has one
InitMux == AggIdle /\ MuxInit /\ RouteIdle /\ TabIdle /\ ExtIdle
NextMux == ReadPsRows \/ WalkStart \/ WalkExit \/ WalkBreak \/ WalkMatch \/ WalkAdvance
SpecMux == InitMux /\ [][NextMux]_vars /\ WF_vars(NextMux)

\* getRoutingSummary for a process with at most one ancestor: the walk,
\* then the reconciliation with the environment
InitRoute == AggIdle /\ RouteInit /\ RouteIdle /\ TabIdle /\ ExtIdle
NextRoute == WalkStart \/ WalkExit \/ WalkBreak \/ WalkMatch \/ WalkAdvance \/ Reconcile
SpecRoute == InitRoute /\ [][NextRoute]_vars

\* getZellijRouting on any layout dump and any working directory
InitTabs == AggIdle /\ MuxIdle /\ RouteIdle /\ TabInit /\ ExtIdle
NextTabs == GetZellijRouting
SpecTabs == InitTabs /\ [][NextTabs]_vars

\* getZellijRouting on any layout text: the parse, then the match
InitLayout == AggIdle /\ MuxIdle /\ RouteIdle /\ LayoutInit /\ ExtIdle
NextLayout == ParseLayout \/ GetZellijRouting
SpecLayout == InitLayout /\ [][NextLayout]_vars

\* the extension of one pi process through any sequence of events and
\* heartbeat ticks, with aggregation passes of another process alongside
InitExt == AggIdle /\ MuxIdle /\ RouteIdle /\ TabIdle /\ ExtInit
NextExt ==
  \/ SessionStart \/ Publish \/ Tick \/ WriteTmp \/ Rename \/ SessionShutdown
  \/ TimePasses \/ ListFiles \/ ReadFile \/ EndPass
SpecExt == InitExt /\ [][NextExt]_vars

\* a session of the extension with its heartbeat, no other event, publish
\* cycles that take time, and aggregation passes alongside
NextBeat ==
  \/ SessionStart \/ Tick \/ WriteTmp \/ Rename \/ SessionShutdown
  \/ TimePasses \/ CycleTakesTime \/ ListFiles \/ ReadFile \/ EndPass
SpecBeat == InitExt /\ [][NextBeat]_vars

\* the extension alone through any sequence of events and heartbeat ticks,
\* with file system calls that may throw
NextFault ==
  \/ SessionStart \/ Publish \/ Tick \/ WriteTmp \/ Rename \/ FsThrows
  \/ SessionShutdown \/ TimePasses
SpecFault == InitExt /\ [][NextFault]_vars

(* ------------------------------------------------------------------ *)
(* Properties of the aggregator                                        *)
(* ------------------------------------------------------------------ *)

\* the entries an aggregation pass enumerates
Enumerated(n) == dirExists /\ n \in present /\ endsWithJson(n)

\* the file passes the schema check
PassesSchema(n) == normalizeInstance(readJson(dir[n]))

\* the recorded pid is the pid of a running process
PidAlive(n) ==
  LET p == Number(dir[n].pid) IN isFinite(p) /\ p.v > 0 /\ p.v \in alive

\* the record was updated no longer than staleMs ago
Fresh(n) ==
  LET u == Number(dir[n].upd) IN isFinite(u) /\ now - u.v <= staleMs

\* the qualifying set, read off the directory
Qualifying ==
  {n \in FileNames : Enumerated(n) /\ PassesSchema(n) /\ PidAlive(n) /\ Fresh(n)}

QualifyingWith(P(_)) == Cardinality({n \in Qualifying : P(dir[n])})

FilesOf(insts) == {insts[i].file : i \in DOMAIN insts}

KeyOf(n) == IF dir[n].sid # "" THEN dir[n].sid ELSE "unknown"

RECURSIVE MemberCount(_)
MemberCount(keys) ==
  IF keys = {} THEN 0
  ELSE LET k == CHOOSE x \in keys : TRUE
       IN  Len(sessions[k].pids) + MemberCount(keys \ {k})

Reduced == pc \in {"group", "emit", "done", "crashed"}
Grouped == pc \in {"emit", "done"}

C2_StaleBoundary ==
  /\ \A i \in DOMAIN instances :
       LET u == instances[i].data.upd
       IN  instances[i].stale <=>
             \/ u.t = "undefined"
             \/ ~isFinite(Number(u))
             \/ now - Number(u).v > staleMs
  /\ Reduced =>
       \A n \in FileNames :
         (/\ Enumerated(n) /\ PassesSchema(n) /\ PidAlive(n)
          /\ dir[n].upd = Num(now - staleMs))
         => n \in FilesOf(active)

\* a document holds a record aged exactly staleMs
C2_Witness ==
  /\ pc = "done"
  /\ \E i \in DOMAIN active :
       /\ active[i].ageMs = Num(staleMs)
       /\ ~active[i].stale

\* C3: the verdict is none iff the qualifying set is empty, working iff it is
\* not empty and all its members are working, waiting_input iff it is not
\* empty and all its members are waiting_input, and mixed otherwise
C3_Verdict ==
  Reduced =>
    LET all(a) == Qualifying # {} /\ \A n \in Qualifying : dir[n].act = a
    IN  /\ aggregate = "none" <=> Qualifying = {}
        /\ aggregate = "working" <=> all("working")
        /\ aggregate = "waiting_input" <=> all("waiting_input")
        /\ aggregate = "mixed" <=>
             (Qualifying # {} /\ ~all("working") /\ ~all("waiting_input"))
        /\ aggregate \in {"none", "working", "waiting_input", "mixed"}

\* three live records, two working and one waiting, give mixed
C3_Witness ==
  /\ pc = "done"
  /\ counts = [total |-> 3, working |-> 2, waiting_input |-> 1, unknown |-> 0]
  /\ aggregate = "mixed"

\* C4 as claimed: total is the number of qualifying records and the three
\* buckets add up to it
C4_AsClaimed ==
  Reduced =>
    /\ counts.total = Cardinality(Qualifying)
    /\ counts.working + counts.waiting_input + counts.unknown = counts.total

\* C4 as amended: total is the number of qualifying records, every
\* qualifying record is counted in at most one bucket, and in exactly one
\* when its activity is working, waiting_input or unknown
C4_Buckets ==
  Reduced =>
    /\ counts.total = Cardinality(Qualifying)
    /\ counts.working + counts.waiting_input + counts.unknown
         = QualifyingWith(LAMBDA d : d.act \in Activities)
    /\ counts.working + counts.waiting_input + counts.unknown <= counts.total
    /\ (\A n \in Qualifying : dir[n].act \in Activities)
         => counts.working + counts.waiting_input + counts.unknown = counts.total

\* three qualifying records, one in each bucket
C4_Witness ==
  /\ pc = "done"
  /\ counts = [total |-> 3, working |-> 1, waiting_input |-> 1, unknown |-> 1]

\* C5: the instances array is in ascending order of pid
C5_Sorted ==
  Reduced =>
    \A i, j \in DOMAIN active :
      i < j => Number(active[i].data.pid).v <= Number(active[j].data.pid).v

\* three records enumerated with the largest pid first and emitted with the
\* smallest pid first
C5_Witness ==
  /\ pc = "done"
  /\ Len(active) = 3
  /\ files[1] = F3
  /\ active[1].file = F1
  /\ active[3].file = F3

\* C6 as claimed: the session groups partition the qualifying set by session
\* id, with "unknown" for a record that has none; a group's pids are its
\* members' pids in ascending order and its activity counts are the numbers
\* of its members with each activity
C6_AsClaimed ==
  pc \in {"emit", "done", "crashed"} =>
    /\ DOMAIN sessions = {KeyOf(n) : n \in Qualifying}
    /\ \A k \in DOMAIN sessions :
         LET members == {n \in Qualifying : KeyOf(n) = k}
             pids == sessions[k].pids
         IN  /\ Len(pids) = Cardinality(members)
             /\ {pids[j] : j \in DOMAIN pids} = {dir[n].pid : n \in members}
             /\ \A i, j \in DOMAIN pids :
                  i < j => Number(pids[i]).v <= Number(pids[j]).v
             /\ \A a \in Activities :
                  sessions[k].activities[a]
                    = Cardinality({n \in members : dir[n].act = a})

\* C7 as claimed: a pass never ends without a document, the records it
\* aggregates are those of the files that passed the schema check, and a
\* missing directory gives total 0 and the verdict none
C7_AsClaimed ==
  /\ pc # "crashed"
  /\ Reduced => \A n \in FilesOf(active) : Enumerated(n) /\ PassesSchema(n)
  /\ (pc = "done" /\ ~dirExists) => (counts.total = 0 /\ aggregate = "none")

\* C8 as claimed: any other enumeration order of the same directory gives
\* the same instances array, the same pid lookup and the same counts
C8_AsClaimed ==
  pc = "done" =>
    \A o \in Orders({n \in present : endsWithJson(n)}) :
      LET other == activeOf(collect(o))
      IN  /\ other = active
          /\ lookupByPid(other, NoLookup) = instancesByPid
          /\ countsOf(other) = counts
          /\ contextOf(other) = context

\* C9 as claimed: every record of the qualifying set carries schemaVersion 2
\* and a process.pid that is a number
C9_AsClaimed ==
  Reduced =>
    \A i \in DOMAIN active :
      /\ active[i].data.sv = Num(2)
      /\ active[i].data.pid.t = "num"

(* ------------------------------------------------------------------ *)
(* Properties of the ancestry walk                                     *)
(* ------------------------------------------------------------------ *)

ParentOf(p) == IF p \in DOMAIN byPid THEN byPid[p].ppid ELSE 0

RECURSIVE Closure(_, _)
Closure(S, n) ==
  IF n = 0 THEN S
  ELSE Closure(S \cup ({ParentOf(p) : p \in S} \ {0}), n - 1)

\* every pid reached from the starting pid over one or more parent links
AncestorChain == Closure({ParentOf(startPid)} \ {0}, MaxPid + 1)

\* the commands that match a multiplexer signature
MuxCommands == {c \in SignatureCommands : isZellij(c) \/ isTmux(c) \/ isScreen(c)}

IsMux(row) == [comm |-> row.comm, args |-> row.args] \in MuxCommands

ChainMatches == \E p \in AncestorChain \cap DOMAIN byPid : IsMux(byPid[p])

\* C10: over any table, with cycles and self-parent links, the walk comes to
\* its end, and with no multiplexer on the ancestor chain it returns no
\* kind, no session name and no multiplexer pid
C10_WalkTerminates ==
  /\ <>(mpc = "done")
  /\ [](mpc = "done" /\ ~ChainMatches => ancestry = NoMux)

\* the walk has stopped at a pid it had visited before, with nothing found
C10_Witness ==
  /\ mpc = "done"
  /\ cur # 0
  /\ cur \in seen
  /\ cur \in DOMAIN byPid
  /\ ~IsMux(byPid[cur])
  /\ ancestry = NoMux

\* the pid k parent links above the starting pid, 0 when the chain has ended
RECURSIVE Ancestor(_)
Ancestor(k) == IF k = 0 THEN startPid ELSE ParentOf(Ancestor(k - 1))

\* the numbers of hops at which the chain holds a row that matches a signature
MatchingHops ==
  {k \in 1..(MaxPid + 1) :
     Ancestor(k) \in DOMAIN byPid /\ IsMux(byPid[Ancestor(k)])}

NearestHop == CHOOSE k \in MatchingHops : \A j \in MatchingHops : k <= j

\* C11 as claimed: the multiplexer pid the walk returns is never the
\* starting pid
C11_AsClaimed == mpc = "done" => ancestry.muxPid # startPid

\* C12: when ancestors match, the walk returns the kind, the session name
\* and the pid of the matching ancestor the fewest parent hops above the
\* starting pid, whatever the rows above it hold
C12_Nearest ==
  mpc = "done" /\ MatchingHops # {} =>
    /\ ancestry.muxPid = Ancestor(NearestHop)
    /\ ancestry = matchRow(byPid[Ancestor(NearestHop)])

\* two ancestors of different kinds match, and the nearer one is returned
C12_Witness ==
  /\ mpc = "done"
  /\ \E j, k \in MatchingHops :
       /\ j < k
       /\ Ancestor(j) # Ancestor(k)
       /\ Ancestor(k) # startPid
       /\ matchRow(byPid[Ancestor(j)]).mux # matchRow(byPid[Ancestor(k)]).mux
       /\ \A i \in 1..(j - 1) : i \notin MatchingHops
       /\ ancestry.muxPid = Ancestor(j)

(* ------------------------------------------------------------------ *)
(* Properties of the signature tests and of the reconciliation         *)
(* ------------------------------------------------------------------ *)

Passes(row, kind) ==
  LET c == [comm |-> row.comm, args |-> row.args]
  IN  CASE kind = "zellij" -> isZellij(c)
        [] kind = "tmux" -> isTmux(c)
        [] kind = "screen" -> isScreen(c)

\* the first kind of the order whose test the row passes
FirstKind(row, order) ==
  LET hits == {i \in DOMAIN order : Passes(row, order[i])}
  IN  order[CHOOSE i \in hits : \A j \in hits : i <= j]

Walked == mpc \in {"done", "routed"}
Matched == Walked /\ ancestry.muxPid \in DOMAIN byPid

\* C13 as claimed: a row that passes several tests gets its kind in the
\* order tmux, zellij, screen
C13_AsClaimed ==
  Matched =>
    ancestry.mux = FirstKind(byPid[ancestry.muxPid], <<"tmux", "zellij", "screen">>)

\* C13: a row that passes several tests gets its kind in the order zellij,
\* tmux, screen
C13_Priority ==
  Matched =>
    ancestry.mux = FirstKind(byPid[ancestry.muxPid], <<"zellij", "tmux", "screen">>)

\* the walk has returned at a row that passes the tmux test and the zellij
\* test
C13_Witness ==
  /\ Matched
  /\ Passes(byPid[ancestry.muxPid], "tmux")
  /\ Passes(byPid[ancestry.muxPid], "zellij")
  /\ ancestry.mux = "zellij"

Routed == mpc = "routed"
EnvKind == envMuxOf(env)
EnvSession == envSessionOf(env, clientSession)

\* C14: when the ancestry and the environment report different kinds and
\* the environment names a session, the record has source env, the kind of
\* the environment and the session name of the environment
C14_EnvWins ==
  Routed /\ ancestry.mux # "none" /\ EnvKind # "none"
         /\ EnvKind # ancestry.mux /\ truthyStr(EnvSession) =>
    /\ routing.source = "env"
    /\ routing.mux = EnvKind
    /\ routing.muxSession = EnvSession

\* ancestry tmux with a session name, environment zellij with another one
C14_Witness ==
  /\ Routed
  /\ ancestry.mux = "tmux"
  /\ ancestry.muxSession = Str(<<"a">>)
  /\ EnvKind = "zellij"
  /\ env.zellijSessionName = Str(<<"b", "a", "r">>)
  /\ routing.source = "env"
  /\ routing.mux = "zellij"
  /\ routing.muxSession = Str(<<"b", "a", "r">>)

\* C15: source is mixed exactly when both report the same kind, ancestry
\* exactly when only the ancestry reports one (every field then is the
\* ancestry's), env when only the environment reports one (kind and session
\* name then are the environment's and there is no multiplexer pid), none
\* exactly when neither does (then no kind, no session name, no pid)
C15_Source ==
  Routed =>
    /\ routing.source = "mixed" <=>
         (EnvKind # "none" /\ ancestry.mux # "none" /\ EnvKind = ancestry.mux)
    /\ routing.source = "ancestry" <=> (EnvKind = "none" /\ ancestry.mux # "none")
    /\ routing.source = "ancestry" =>
         /\ routing.mux = ancestry.mux
         /\ routing.muxSession = ancestry.muxSession
         /\ routing.muxPid = ancestry.muxPid
    /\ (EnvKind # "none" /\ ancestry.mux = "none") =>
         /\ routing.source = "env"
         /\ routing.mux = EnvKind
         /\ routing.muxSession = IF truthyStr(EnvSession) THEN EnvSession ELSE NoStr
         /\ routing.muxPid = 0
    /\ routing.source = "none" <=> (EnvKind = "none" /\ ancestry.mux = "none")
    /\ routing.source = "none" =>
         /\ routing.mux = "none"
         /\ routing.muxSession = NoStr
         /\ routing.muxPid = 0

\* only the environment reports a kind, with a session name
C15_Witness ==
  /\ Routed
  /\ ancestry = NoMux
  /\ EnvKind = "tmux"
  /\ truthyStr(EnvSession)
  /\ routing.source = "env"
  /\ routing.muxSession = EnvSession
  /\ routing.muxPid = 0

\* C16: when both report the same kind, the record keeps the pid of the
\* ancestry, and its session name is the environment's when the
\* environment names one and the ancestry's otherwise
C16_SameKind ==
  Routed /\ EnvKind # "none" /\ EnvKind = ancestry.mux =>
    /\ routing.muxPid = ancestry.muxPid
    /\ routing.muxSession =
         IF truthyStr(EnvSession) THEN EnvSession ELSE ancestry.muxSession

\* both report zellij, and the two session names differ
C16_Witness ==
  /\ Routed
  /\ EnvKind = "zellij"
  /\ ancestry.mux = "zellij"
  /\ ancestry.muxSession = Str(<<"b">>)
  /\ truthyStr(EnvSession)
  /\ routing.muxSession = EnvSession
  /\ routing.muxSession # ancestry.muxSession
  /\ routing.muxPid = ancestry.muxPid
  /\ routing.muxPid # 0

(* ------------------------------------------------------------------ *)
(* Properties of the zellij tab matching                               *)
(* ------------------------------------------------------------------ *)

TabsDone == tpc = "done" /\ output.ok
Cands == output.tabs
CwdNorm == normalize(cwd)
PaneCwdsOf == [i \in DOMAIN Cands |-> Cands[i].paneCwd]

\* the candidates whose normalized directory is the caller's
ExactAt == {i \in DOMAIN Cands : normalize(Cands[i].paneCwd) = CwdNorm}

\* the candidates whose normalized directory is not empty and is the
\* caller's, or is what follows one of the separators of the caller's
SuffixAt ==
  {i \in DOMAIN Cands :
     LET pn == normalize(Cands[i].paneCwd)
     IN  /\ pn # <<>>
         /\ \/ CwdNorm = pn
            \/ \E k \in 1..Len(CwdNorm) :
                 CwdNorm[k] = "/" /\ SubSeq(CwdNorm, k + 1, Len(CwdNorm)) = pn}

First(S) == CHOOSE i \in S : \A j \in S : i <= j

AbsAB == <<(<<"/", "a">>), (<<"/", "a", "/", "b">>)>>
RelAB == <<(<<"a">>), (<<"a", "/", "b">>)>>

\* C17: the tiers are tried in the order exact, suffix, single candidate:
\* a candidate whose normalized directory is the caller's is taken as exact
\* (candidates /a and /a/b with caller /a/b give index 2); with no exact
\* and no suffix match a lone candidate is taken as single_candidate
\* whatever its directory, and two or more candidates give no matched tab;
\* the candidates are reported in every case
C17_Tiers ==
  TabsDone =>
    /\ zr.def /\ zr.tabCandidates = Cands
    /\ ExactAt # {} => zr.matchedTab = matchedTab(Cands[First(ExactAt)], "exact")
    /\ (ExactAt = {} /\ SuffixAt # {}) => zr.matchedTab.match = "suffix"
    /\ (ExactAt = {} /\ SuffixAt = {} /\ Len(Cands) = 1) =>
         zr.matchedTab = matchedTab(Cands[1], "single_candidate")
    /\ (ExactAt = {} /\ SuffixAt = {} /\ Len(Cands) # 1) => zr.matchedTab = NoTab
    /\ (PaneCwdsOf = AbsAB /\ cwd = <<"/", "a", "/", "b">>) =>
         zr.matchedTab.index = 2 /\ zr.matchedTab.match = "exact"

\* the first candidate would match by suffix, the second matches exactly
\* and is the one taken
C17_Witness ==
  /\ TabsDone
  /\ Len(Cands) = 2
  /\ 1 \in SuffixAt
  /\ ExactAt = {2}
  /\ zr.matchedTab.index = 2
  /\ zr.matchedTab.match = "exact"

C20_AtomicPublish ==
  /\ observed.content.state \in {"absent", "whole"}
  /\ observed.content.state = "whole" =>
       observed.content.seq =
         IF observed.writer = "idle" THEN observed.seq ELSE observed.seq - 1
  /\ \A i \in DOMAIN rfiles : rfiles[i] = F1 /\ rfiles[i] # FTmp
  /\ observed.file = F1

\* the aggregator has read the telemetry file while the temporary file was
\* being written, and found the whole document published before
C20_Witness ==
  /\ observed.writer = "write"
  /\ observed.content.state = "whole"
  /\ observed.content.seq = observed.seq - 1
  /\ observed.content.seq >= 1

(* ------------------------------------------------------------------ *)
(* Properties of the routing record, continued                         *)
(* ------------------------------------------------------------------ *)

\* the session name of the record is the one the ancestry walk found
SessionFromAncestry ==
  routing.muxSession.def /\ ~truthyStr(EnvSession)

\* C26: in a reconciled routing record a multiplexer pid is the pid of an
\* ancestor of the record's kind, and a session name taken from the ancestry
\* is reported only when the ancestry's kind is the record's kind
C26_AsClaimed ==
  Routed =>
    /\ routing.muxPid # 0 => ancestry.mux = routing.mux
    /\ SessionFromAncestry => ancestry.mux = routing.mux

(* ------------------------------------------------------------------ *)
(* Properties of the extension, continued                              *)
(* ------------------------------------------------------------------ *)

\* C21: no error leaves a publish cycle: a failing mkdirSync, writeFileSync
\* or renameSync is contained, in a handler as in the interval callback
C21_AsClaimed == escaped = "none"

\* the document the telemetry file holds
Published == fsys[telemetryFile].doc

\* C22: every document the extension has published, from an event, the
\* command or a heartbeat tick, passes the schema check of the aggregator
\* once it is serialized and parsed back: schemaVersion is 2 and process.pid
\* is the pid of the extension's process, a positive integer
C22_PassesSchema ==
  fsys[telemetryFile].state = "whole" =>
    /\ normalizeInstance(readJson(textOf(fsys[telemetryFile])))
    /\ textOf(fsys[telemetryFile]).sv = Num(2)
    /\ Number(textOf(fsys[telemetryFile]).pid) = Fin(SelfPid)
    /\ SelfPid > 0

\* a heartbeat tick has published its document
C22_Witness ==
  /\ fsys[telemetryFile].state = "whole"
  /\ Published.process.heartbeatSeq = 2
  /\ Published.lastEvent = "session_start"
  /\ Published.process.updatedAt = startedAt + heartbeatMs
  /\ normalizeInstance(readJson(textOf(fsys[telemetryFile])))

\* the step is the interval callback building its record
TickStep == running # "heartbeat" /\ running' = "heartbeat"

\* the step is a handler building its record
PublishStep == running = "none" /\ running' \notin {"none", "heartbeat"}

\* the fields of a record a heartbeat tick is not to touch
Frame(d) ==
  [d EXCEPT !.process.updatedAt = 0, !.process.uptimeMs = 0,
            !.process.heartbeatSeq = 0]

\* C23: a heartbeat tick rewrites the last record with updatedAt, uptimeMs
\* and heartbeatSeq (one more) changed and every other field as the last
\* publish of a handler left it, and that is the document it writes; the
\* other fields of the record change in the publish of a handler only, and
\* no timer is running while there is no record yet
C23_TickFrame ==
  [][/\ TickStep =>
          /\ lastSnapshot.def
          /\ Frame(lastSnapshot') = Frame(lastSnapshot)
          /\ lastSnapshot'.process.updatedAt = clock
          /\ lastSnapshot'.process.uptimeMs = clock - startedAt
          /\ lastSnapshot'.process.heartbeatSeq =
               lastSnapshot.process.heartbeatSeq + 1
          /\ fsys'[tmpPath(telemetryFile)].doc = lastSnapshot'
     /\ Frame(lastSnapshot') # Frame(lastSnapshot) => PublishStep
     /\ (timers' # {} => lastSnapshot'.def)
     /\ (fsys'[telemetryFile].state = "whole" /\ lastSnapshot'.def =>
           Frame(fsys'[telemetryFile].doc) = Frame(lastSnapshot')
           \/ wpc' # "idle")]_vars

\* the telemetry file holds the document of a tick that followed the publish
\* of agent_end while the agent worked, a heartbeat period later
C23_Witness ==
  /\ fsys[telemetryFile].state = "whole"
  /\ wpc = "idle"
  /\ Published.lastEvent = "agent_end"
  /\ Published.activity = "working"
  /\ Published.process.heartbeatSeq = 3
  /\ Published.process.updatedAt = startedAt + heartbeatMs
  /\ Published.process.uptimeMs = heartbeatMs

\* C25 as stated: while the heartbeat of a live extension runs and its
\* callback is called every heartbeatMs, an aggregation pass with staleMs
\* above heartbeatMs that begins then enumerates the telemetry file, and when
\* it reads it then, the record is not stale and is in the qualifying set
C25_AsClaimed ==
  staleMs > heartbeatMs /\ observed.began =>
    /\ observed.listed
    /\ observed.read /\ observed.live => observed.qualifies

\* C25: while the heartbeat of a live extension runs and its callback is
\* called every heartbeatMs, an aggregation pass that begins then
\* enumerates the telemetry file, and when it reads it then, the record
\* passes the schema check and is no older than heartbeatMs and two publish
\* cycles, so it is in the qualifying set of a pass whose staleMs is above
\* that
C25_NeverStale ==
  observed.began =>
    /\ observed.listed
    /\ observed.read /\ observed.live =>
         /\ observed.passes
         /\ observed.ageMs.v <= heartbeatMs + 2 * MaxCycleMs
         /\ staleMs > heartbeatMs + 2 * MaxCycleMs => observed.qualifies

\* a pass has read the record of session_start, whose handler took
\* MaxCycleMs to arm the timer, while the first tick took as long to write
\* its own, and kept it
C25_Witness ==
  /\ staleMs = heartbeatMs + 2 * MaxCycleMs + 1
  /\ observed.began
  /\ observed.read
  /\ observed.live
  /\ observed.qualifies
  /\ observed.ageMs = Num(heartbeatMs + 2 * MaxCycleMs)
  /\ observed.content.seq = 1
  /\ observed.seq = 2
  /\ handled = "session_start"

\* C27: once session_shutdown is handled the telemetry file stays absent
\* until session_start is handled again
C27_AsClaimed == stopped => fsys[telemetryFile] = Absent

(* ------------------------------------------------------------------ *)
(* Properties of the layout parser                                     *)
(* ------------------------------------------------------------------ *)

Parsed == tpc \in {"call", "done"} /\ layout # <<>>

IsMarker(i) == startsWith(trim(layout[i]), TabMarker)
IsPiPane(i) == ~IsMarker(i) /\ includes(trim(layout[i]), PiPane)

\* the lines of the layout that are pi panes, in order
PaneLines == {i \in DOMAIN layout : IsPiPane(i)}
PaneLine(k) ==
  CHOOSE i \in PaneLines : Cardinality({j \in PaneLines : j <= i}) = k

\* the tab markers up to a line
MarkersUpTo(i) == {j \in 1..i : IsMarker(j)}

\* C24: there is one candidate for every pi pane line, in order; its index
\* is the number of tab markers up to its line, which is 1 at least, and its
\* name is the name of the last of these markers
C24_AsClaimed ==
  Parsed =>
    /\ Len(output.tabs) = Cardinality(PaneLines)
    /\ \A k \in DOMAIN output.tabs :
         /\ output.tabs[k].index = Cardinality(MarkersUpTo(PaneLine(k)))
         /\ output.tabs[k].index >= 1
         /\ \E j \in MarkersUpTo(PaneLine(k)) :
              /\ \A h \in MarkersUpTo(PaneLine(k)) : h <= j
              /\ group(trim(layout[j]), NameKey).def =>
                   output.tabs[k].name = group(trim(layout[j]), NameKey).s

====
